---- MODULE Spec2Model ----
(***************************************************************************)
(* A model of patcherex.Patcher (src/patcherex/patcherex.py): the patch   *)
(* registry, compile_patches with its phases, the detour engine           *)
(* (insert_detour) and the virtual-address to file-offset translation.    *)
(*                                                                         *)
(* The image buffer ncontent is a byte string of several pages.  It is    *)
(* kept as its length plus the bytes written since the file was read      *)
(* (mem); a byte that was never written is the byte of the input file or, *)
(* past its end, the "\x00" that pad_str and ljust put there.             *)
(***************************************************************************)
EXTENDS Integers, Sequences, FiniteSets, TLC

VARIABLES
    patches,                \* self.patches
    name_map,               \* self.name_map
    added_code,             \* self.added_code: the assembled chunks, in order
    added_data,             \* self.added_data: bytes
    curr_code_position,     \* self.curr_code_position
    curr_data_position,     \* self.curr_data_position
    curr_file_position,     \* self.curr_file_position
    added_code_file_start,  \* self.added_code_file_start
    added_data_file_start,  \* self.added_data_file_start
    ncontent,               \* self.ncontent
    original_header_end,    \* self.original_header_end
    pc,                     \* where compile_patches stands
    di,                     \* compile_patches: index of the next patch of the detour loop
    err,                    \* the exception that ended the last compile_patches, if any
    det,                    \* insert_detour: the locals of the most recent call
    ncompiles,              \* number of compile_patches calls started
    block_plus,             \* what int + Block evaluates to in the analysis library
    q                       \* the translation calls checked on their own (SpecT)

vars == << patches, name_map, added_code, added_data, curr_code_position,
           curr_data_position, curr_file_position, added_code_file_start,
           added_data_file_start, ncontent, original_header_end, pc, di, err,
           det, ncompiles, block_plus, q >>

---------------------------------------------------------------------------
(* Bounds of the model *)

MaxPatches == 2
MaxCompiles == 2

---------------------------------------------------------------------------
(* Python values *)

None == -1          \* None in a field that otherwise holds an address or offset
NoName == ""        \* name=None of a patch

Max(a, b) == IF a >= b THEN a ELSE b
Min(a, b) == IF a <= b THEN a ELSE b

RECURSIVE SumLen(_)
SumLen(s) ==
    IF s = << >> THEN 0
    ELSE CHOOSE r \in { Head(t).len + SumLen(Tail(t)) : t \in {s} } : TRUE

RECURSIVE Flatten(_)
Flatten(ss) ==
    IF ss = << >> THEN << >>
    ELSE CHOOSE r \in { Head(s) \o Flatten(Tail(s)) : s \in {ss} } : TRUE

\* struct.pack("<I", x) for n = 4, struct.pack("<H", x) for n = 2
Pack(x, n) == [i \in 1..n |-> (x \div (256 ^ (i - 1))) % 256]

RECURSIVE Unpack(_)
Unpack(b) == IF b = << >> THEN 0 ELSE Head(b) + 256 * Unpack(Tail(b))

\* struct.pack("<IIIIIIII", *words)
PackWords(words) == Flatten([i \in 1..Len(words) |-> Pack(words[i], 4)])

---------------------------------------------------------------------------
(* The input file and the analysed binary *)

page_size == \h1000
added_code_segment == \h09000000
added_data_segment == \h09100000
patched_tag == << 83, 72, 69, 76, 76, 80, 72, 73, 83, 72, 0 >>  \* "SHELLPHISH\x00"
phent_size == 8 * 4

\* The program headers of the input file: two LOAD segments; the second one's
\* pages do not follow the first one's in the file.
FileSegments ==
    << << 1, \h0000, \h08048000, \h08048000, \h1000, \h1000, 5, \h1000 >>,
       << 1, \h2000, \h08049000, \h08049000, \h2005, \h2005, 5, \h1000 >> >>

FileLen == \h4005
FilePhoff == \h34

\* ocontent[o]: the CGC header fields the code reads, the program headers, and
\* bytes of code and data (none of them 0x90).
FileByte(o) ==
    CASE o \in \h1C..\h1F -> Pack(FilePhoff, 4)[o - \h1C + 1]
      [] o \in \h2A..\h2B -> Pack(phent_size, 2)[o - \h2A + 1]
      [] o \in \h2C..\h2D -> Pack(Len(FileSegments), 2)[o - \h2C + 1]
      [] o \in FilePhoff..(FilePhoff + phent_size * Len(FileSegments) - 1) ->
            PackWords(Flatten(FileSegments))[o - FilePhoff + 1]
      [] OTHER -> 1 + (o % 100)

ocontent == [len |-> FileLen, mem |-> [o \in {} |-> 0]]

---------------------------------------------------------------------------
(* Byte strings that hold the image *)

\* tstr[o]
ByteAt(tstr, o) ==
    IF o \in DOMAIN tstr.mem THEN tstr.mem[o]
    ELSE IF o < FileLen THEN FileByte(o) ELSE 0

\* Op(v), with v evaluated once
Eval(v, Op(_)) == CHOOSE r \in { Op(x) : x \in {v} } : TRUE

\* tstr[a:b]
Slice(tstr, a, b) ==
    Eval(tstr, LAMBDA t :
        [i \in 1..Max(Min(b, t.len) - a, 0) |-> ByteAt(t, a + i - 1)])

\* utils.str_overwrite(tstr, new, pos): tstr[:pos] + new + tstr[pos+len(new):]
str_overwrite(tstr, new, pos) ==
    Eval(<< tstr, new, pos >>, LAMBDA a :
        LET p == Min(a[3], a[1].len)
            w == p..(p + Len(a[2]) - 1)
        IN  [len |-> Max(a[1].len, p + Len(a[2])),
             mem |-> [o \in (DOMAIN a[1].mem) \cup w |->
                        IF o \in w THEN a[2][o - p + 1] ELSE a[1].mem[o]]])

\* utils.str_overwrite(tstr, new): pos=None appends
str_append(tstr, new) == str_overwrite(tstr, new, tstr.len)

\* utils.round_up_to_page(addr)
round_up_to_page(addr) == ((addr + page_size - 1) \div page_size) * page_size

\* utils.pad_str(tstr, align): "\x00" up to a multiple of align
pad_str(tstr, align) ==
    [tstr EXCEPT !.len = ((tstr.len + align - 1) \div align) * align]

\* str.ljust(width, "\x00")
ljust(tstr, width) == [tstr EXCEPT !.len = Max(tstr.len, width)]

---------------------------------------------------------------------------
(* Header setup *)

is_patched(content) ==
    Slice(content, \h34, \h34 + Len(patched_tag)) = patched_tag

dump_segments(content) ==
    LET cgcef_phoff == Unpack(Slice(content, \h1C, \h20))
        cgcef_phnum == Unpack(Slice(content, \h2C, \h2E))
        hdr(i) == Slice(content, cgcef_phoff + phent_size * i,
                        cgcef_phoff + phent_size * i + phent_size)
    IN  [i \in 1..cgcef_phnum |->
            [w \in 1..8 |-> Unpack(SubSeq(hdr(i - 1), 4 * w - 3, 4 * w))]]

\* setup_headers on the file just read; the fields it sets
setup_headers ==
    LET segments == dump_segments(ocontent)
        c1 == pad_str(ocontent, \h10)
        c2 == str_overwrite(c1, Pack(c1.len, 4), \h1C)
        c3 == str_append(c2, Flatten([i \in 1..Len(segments) |-> PackWords(segments[i])]))
    IN  IF is_patched(ocontent)
        THEN [ncontent |-> ocontent, segments |-> << >>, original_header_end |-> None]
        ELSE [ncontent |-> str_overwrite(c3, patched_tag, \h34),
              segments |-> segments,
              original_header_end |-> c3.len]

---------------------------------------------------------------------------
(* The collaborators: the CFG, the block lifter, the disassembler, the loader *)

\* A decoded instruction without its address: its length, its mnemonic, and its
\* operand, which for a pc-relative instruction is a displacement from the end of
\* the instruction and is printed as the address it designates.
Insn(len, op, rel, arg) == [len |-> len, op |-> op, rel |-> rel, arg |-> arg]

\* The basic blocks of the binary (project.factory.block(addr)) by start address.
BlockAddrs == { \h08048100, \h08048200, \h08048300, \h08048400, \h08048FFA }

BlockInsns(addr) ==
    CASE addr = \h08048100 ->    \* push ebp; mov ebp,esp; sub esp,0x10; ret
            << Insn(1, "push", FALSE, 5), Insn(2, "mov", FALSE, 54),
               Insn(3, "sub", FALSE, 16), Insn(1, "ret", FALSE, 0) >>
      [] addr = \h08048200 ->    \* inc eax; jne short
            << Insn(2, "inc", FALSE, 0), Insn(2, "jne", TRUE, 16) >>
      [] addr = \h08048300 ->    \* jmp rel32
            << Insn(5, "jmp", TRUE, 256) >>
      [] addr = \h08048400 ->    \* call $+5; pop ebx; add ebx,0x20; ret
            << Insn(5, "call", TRUE, 0), Insn(1, "pop", FALSE, 3),
               Insn(3, "add", FALSE, 32), Insn(1, "ret", FALSE, 0) >>
      [] addr = \h08048FFA ->    \* xor eax,eax; mov ecx,eax; mov [ebp-4],eax; jne short
            << Insn(2, "xor", FALSE, 0), Insn(2, "mov", FALSE, 193),
               Insn(3, "mov", FALSE, 4), Insn(2, "jne", TRUE, 32) >>

\* utils.decompile(bytes, offset): the instructions with their addresses
RECURSIVE decompile(_, _)
decompile(insns, offset) ==
    IF insns = << >> THEN << >>
    ELSE << [address |-> offset, len |-> Head(insns).len, op |-> Head(insns).op,
             rel |-> Head(insns).rel, arg |-> Head(insns).arg] >>
         \o decompile(Tail(insns), offset + Head(insns).len)

\* project.factory.block(addr, num_inst=n).size
block_size(addr, n) == SumLen(SubSeq(BlockInsns(addr), 1, n))

\* node.instruction_addrs of the CFG node at addr
instruction_addrs(addr) ==
    LET ins == decompile(BlockInsns(addr), addr)
    IN  { ins[i].address : i \in 1..Len(ins) }

\* The instruction that starts at addr, for factory.block(addr, num_inst=1)
InsnStarts == UNION { instruction_addrs(b) : b \in BlockAddrs }
InsnAt(addr) ==
    LET b == CHOOSE b \in BlockAddrs : addr \in instruction_addrs(b)
        ins == decompile(BlockInsns(b), b)
    IN  ins[CHOOSE i \in 1..Len(ins) : ins[i].address = addr]

\* get_ordered_nodes: the node addresses, sorted, without duplicates
RECURSIVE SortSet(_)
SortSet(S) ==
    IF S = {} THEN << >>
    ELSE LET m == CHOOSE x \in S : \A y \in S : x <= y
         IN  << m >> \o SortSet(S \ {m})

get_ordered_nodes == SortSet(BlockAddrs)

\* bisect.bisect_right(a, x)
bisect_right(a, x) == Cardinality({ i \in 1..Len(a) : a[i] <= x })

\* get_block_containing_inst: the block address, or None for MissingBlockException
get_block_containing_inst(inst_addr) ==
    LET ordered_nodes == get_ordered_nodes
        index == bisect_right(ordered_nodes, inst_addr) - 1
        \* ordered_nodes[-1] is the last node
        node == ordered_nodes[IF index < 0 THEN Len(ordered_nodes) ELSE index + 1]
    IN  IF inst_addr \in instruction_addrs(node) THEN node ELSE None

\* project.loader.main_bin.addr_to_offset(addr): the first segment that holds
\* addr gives the offset, None when no byte of the file backs it
addr_to_offset(addr) ==
    LET holds(s) == s[3] <= addr /\ addr < s[3] + s[6]
        hit == { i \in 1..Len(FileSegments) : holds(FileSegments[i]) }
    IN  IF hit = {} THEN None
        ELSE LET s == FileSegments[CHOOSE i \in hit : \A j \in hit : i <= j]
             IN  IF addr - s[3] < s[5] THEN addr - s[3] + s[2] ELSE None

---------------------------------------------------------------------------
(* Movability *)

\* bytes_to_comparable_str(ibytes, offset): mnemonic and operands of the
\* instruction decoded at offset, the address column dropped
\* A 32-bit address is given here by its two 16-bit halves << high, low >>.
bytes_to_comparable_str(i, offset) ==
    LET low == offset[2] + i.len + i.arg
        target == << (offset[1] + (low \div 65536)) % 65536, low % 65536 >>
    IN  << i.op, IF i.rel THEN target ELSE << 0, i.arg >> >>

check_if_movable(instruction) ==
    LET pos1 == bytes_to_comparable_str(instruction, << \h0000, \h0000 >>)  \* 0x0
        pos2 == bytes_to_comparable_str(instruction, << \h07F0, \h0000 >>)  \* 0x07f00000
        pos3 == bytes_to_comparable_str(instruction, << \hFE00, \h0000 >>)  \* 0xfe000000
    IN  IF pos1 = pos2 /\ pos2 = pos3 THEN TRUE ELSE FALSE

---------------------------------------------------------------------------
(* Virtual addresses to file offsets *)

\* x & 0xfffffff000
page_of(x) == x - (x % \h1000)

\* maddress_to_baddress: None stands for InvalidVAddrException
maddress_to_baddress(addr) == addr_to_offset(addr)

\* the full pages between the first and the last one
RECURSIVE middle_pages(_, _)
middle_pages(nstart, end_p) ==
    IF nstart = end_p THEN << >>
    ELSE << << maddress_to_baddress(nstart), maddress_to_baddress(nstart) + \h1000 >> >>
         \o middle_pages(nstart + \h1000, end_p)

\* a translation that splits a range at one page boundary only
get_memory_translation_list_one_split(address, size) ==
    LET start == address
        end == address + size - 1
        first_page_baddress == maddress_to_baddress(start)
    IN  IF maddress_to_baddress(start) = None \/ maddress_to_baddress(end) = None
        THEN [raised |-> TRUE, mlist |-> << >>]
        ELSE IF page_of(start) = page_of(end)
        THEN [raised |-> FALSE,
              mlist |-> << << maddress_to_baddress(start), maddress_to_baddress(end) + 1 >> >>]
        ELSE [raised |-> FALSE,
              mlist |-> << << first_page_baddress, page_of(first_page_baddress) + \h1000 >>,
                           << maddress_to_baddress(page_of(end)), maddress_to_baddress(end) + 1 >> >>]

\* get_memory_translation_list(address, size), size >= 1: the (start, end) file
\* ranges; raised when one of the addresses it translates has no file offset
get_memory_translation_list(address, size) ==
    LET start == address
        end == address + size - 1
        start_p == page_of(address)
        end_p == page_of(end)
        first_page_baddress == maddress_to_baddress(start)
        pages == { start_p + k * \h1000 : k \in 1..((end_p - start_p) \div \h1000) }
    IN  IF maddress_to_baddress(start) = None \/ maddress_to_baddress(end) = None
           \/ \E p \in pages : maddress_to_baddress(p) = None
        THEN [raised |-> TRUE, mlist |-> << >>]
        ELSE IF start_p = end_p
        THEN [raised |-> FALSE,
              mlist |-> << << maddress_to_baddress(start), maddress_to_baddress(end) + 1 >> >>]
        ELSE [raised |-> FALSE,
              mlist |-> << << first_page_baddress, page_of(first_page_baddress) + \h1000 >> >>
                        \o middle_pages(page_of(start) + \h1000, end_p)
                        \o << << maddress_to_baddress(end_p), maddress_to_baddress(end) + 1 >> >>]

\* new_content[a:b]
PySlice(s, a, b) == SubSeq(s, a + 1, Min(b, Len(s)))

RECURSIVE patch_ranges(_, _, _, _)
patch_ranges(content, mlist, new_content, ndata_pos) ==
    IF mlist = << >> THEN content
    ELSE LET start == Head(mlist)[1]
             end == Head(mlist)[2]
             ndata == PySlice(new_content, ndata_pos, ndata_pos + (end - start))
         IN  patch_ranges(str_overwrite(content, ndata, start), Tail(mlist),
                          new_content, ndata_pos + Len(ndata))

\* a patch_bin that writes new_content in one piece at the offset of its first byte
patch_bin_unsplit(content, address, new_content) ==
    IF maddress_to_baddress(address) = None
    THEN [raised |-> TRUE, ncontent |-> content]
    ELSE [raised |-> FALSE,
          ncontent |-> str_overwrite(content, new_content, maddress_to_baddress(address))]

\* patch_bin(address, new_content) on the image content
patch_bin(content, address, new_content) ==
    LET t == get_memory_translation_list(address, Len(new_content))
    IN  IF t.raised THEN [raised |-> TRUE, ncontent |-> content]
        ELSE [raised |-> FALSE,
              ncontent |-> patch_ranges(content, t.mlist, new_content, 0)]

\* read_mem_from_file(address, size)
read_mem_from_file(content, address, size) ==
    LET t == get_memory_translation_list(address, size)
    IN  IF t.raised THEN [raised |-> TRUE, mem |-> << >>]
        ELSE [raised |-> FALSE,
              mem |-> Flatten([k \in 1..Len(t.mlist) |->
                                 Slice(content, t.mlist[k][1], t.mlist[k][2])])]

---------------------------------------------------------------------------
(* The assembler *)

\* utils.compile_asm(code, base, name_map): the assembled chunk.  Its bytes depend
\* on the source, on the base and on the value of the symbol it refers to;
\* raised when the symbol is not in the map.
compile_asm(asm, base, symbols) ==
    IF asm.ref # NoName /\ asm.ref \notin DOMAIN symbols
    THEN [raised |-> TRUE, chunk |-> << >>]
    ELSE [raised |-> FALSE,
          chunk |-> [kind |-> "code", len |-> asm.len, base |-> base,
                     sym |-> IF asm.ref = NoName THEN None ELSE symbols[asm.ref]]]

\* len(utils.compile_asm_fake_symbol(code, base))
compile_asm_fake_symbol_len(asm, base) == asm.fake_len

\* utils.compile_jmp(origin, target): e9 and the 32-bit displacement
compile_jmp(origin, target) == << \hE9 >> \o Pack(target - (origin + 5), 4)

---------------------------------------------------------------------------
(* The patches an application registers *)

DataChoices == { [data |-> << 104, 105, 0 >>, name |-> "msg"] }

\* asm_code and name of add_code: three nops named f; a long run of nops; a call
\* of f named g; a jmp to f named h, which is short (2 bytes) once f is known
\* to be near and is 5 bytes with the placeholder
CodeChoices ==
    { [asm |-> [len |-> 3, fake_len |-> 3, ref |-> NoName], name |-> "f"],
      [asm |-> [len |-> \h100002, fake_len |-> \h100002, ref |-> NoName], name |-> NoName],
      [asm |-> [len |-> 5, fake_len |-> 5, ref |-> "f"], name |-> "g"],
      [asm |-> [len |-> 2, fake_len |-> 5, ref |-> "f"], name |-> "h"] }

InlineChoices ==
    { [addr |-> \h08048101, asm |-> << 49, 192 >>],
      [addr |-> \h08048100, asm |-> << 49, 192 >>] }

DetourAddrs ==
    { \h08048050, \h08048100, \h08048103, \h08048106, \h08048200, \h08048300,
      \h08048405, \h08048FFA, \h08049001 }

DetourCode == { [len |-> 2] }

---------------------------------------------------------------------------
(* Construction *)

NoMap == [n \in {} |-> 0]
NoDetour == [status |-> "none"]
QOff == [pc |-> "off"]

TypeOK ==
    /\ pc \in {"idle", "data", "code", "inline", "headers", "detours", "done", "failed"}
    /\ Len(patches) <= MaxPatches
    /\ ncompiles <= MaxCompiles

\* Patcher.__init__ after the file is read and analysed
Init ==
    /\ ncontent = setup_headers.ncontent
    /\ original_header_end = setup_headers.original_header_end
    /\ patches = << >>
    /\ name_map = NoMap
    /\ added_code = << >>
    /\ added_data = << >>
    /\ curr_code_position = added_code_segment
    /\ curr_data_position = added_data_segment
    /\ curr_file_position = round_up_to_page(setup_headers.ncontent.len + 2 * 32)
    /\ added_code_file_start = None
    /\ added_data_file_start = None
    /\ pc = "idle"
    /\ di = 1
    /\ err = "none"
    /\ det = NoDetour
    /\ ncompiles = 0
    /\ block_plus \in {"size", "TypeError"}
    /\ q = QOff

\* no method of the patcher is running
Quiet == pc \in {"idle", "done", "failed"}

compile_vars == << name_map, added_code, added_data, curr_code_position,
                   curr_data_position, curr_file_position, added_code_file_start,
                   added_data_file_start, ncontent, pc, di, err, det, ncompiles >>

\* a registry method may be called: none is running, and the model's bound
CanRegister == Quiet /\ Len(patches) < MaxPatches

add_data ==
    /\ CanRegister
    /\ \E c \in DataChoices :
        patches' = Append(patches, [kind |-> "AddDataPatch", data |-> c.data,
                                    name |-> c.name])
    /\ UNCHANGED << compile_vars, original_header_end, block_plus, q >>

add_code ==
    /\ CanRegister
    /\ \E c \in CodeChoices :
        patches' = Append(patches, [kind |-> "AddCodePatch", asm_code |-> c.asm,
                                    name |-> c.name])
    /\ UNCHANGED << compile_vars, original_header_end, block_plus, q >>

insert_into_block ==
    /\ CanRegister
    /\ \E a \in DetourAddrs, c \in DetourCode :
        patches' = Append(patches, [kind |-> "InsertCodePatch", addr |-> a,
                                    code |-> c, name |-> NoName])
    /\ UNCHANGED << compile_vars, original_header_end, block_plus, q >>

replace_instruction_asm ==
    /\ CanRegister
    /\ \E c \in InlineChoices :
        patches' = Append(patches, [kind |-> "InlinePatch",
                                    instruction_addr |-> c.addr,
                                    new_asm |-> c.asm, name |-> NoName])
    /\ UNCHANGED << compile_vars, original_header_end, block_plus, q >>

---------------------------------------------------------------------------
(* compile_patches *)

Bind(map, name, value) ==
    IF name = NoName THEN map
    ELSE [n \in (DOMAIN map) \cup {name} |-> IF n = name THEN value ELSE map[n]]

OfKind(kind) == SelectSeq(patches, LAMBDA p : p.kind = kind)

\* lines 239-248: the reset of the layout state and the extension of the file
compile_begin ==
    /\ Quiet
    /\ ncompiles < MaxCompiles
    /\ ncompiles' = ncompiles + 1
    /\ name_map' = NoMap
    /\ added_data' = << >>
    /\ added_code' = << >>
    /\ curr_code_position' = added_code_segment
    /\ curr_data_position' = added_data_segment
    /\ curr_file_position' = round_up_to_page(ncontent.len + 2 * 32)
    /\ added_data_file_start' = curr_file_position'
    /\ ncontent' = ljust(ncontent, curr_file_position')
    /\ pc' = "data"
    /\ err' = "none"
    /\ det' = NoDetour
    /\ UNCHANGED << patches, added_code_file_start, original_header_end, di, block_plus, q >>

\* lines 251-258 for the AddDataPatch list ps, from the state st
RECURSIVE data_loop(_, _)
data_loop(ps, st) ==
    IF ps = << >> THEN st
    ELSE LET patch == Head(ps)
         IN  data_loop(Tail(ps), Eval(st, LAMBDA s :
                [added_data |-> s.added_data \o patch.data,
                 name_map |-> Bind(s.name_map, patch.name, s.curr_data_position),
                 curr_data_position |-> s.curr_data_position + Len(patch.data),
                 curr_file_position |-> s.curr_file_position + Len(patch.data),
                 ncontent |-> str_append(s.ncontent, patch.data)]))

\* 1) AddDataPatch, the padding, and the start of the code in the file
add_data_phase ==
    /\ pc = "data"
    /\ \E st \in { data_loop(OfKind("AddDataPatch"),
                    [added_data |-> added_data, name_map |-> name_map,
                     curr_data_position |-> curr_data_position,
                     curr_file_position |-> curr_file_position,
                     ncontent |-> ncontent]) } :
       LET padded == pad_str(st.ncontent, \h1000)
       IN  /\ added_data' = st.added_data
           /\ name_map' = st.name_map
           /\ curr_data_position' = st.curr_data_position
           /\ ncontent' = padded
           /\ curr_file_position' = padded.len
           /\ added_code_file_start' = padded.len
    /\ pc' = "code"
    /\ UNCHANGED << patches, added_code, curr_code_position, added_data_file_start,
                    original_header_end, di, err, det, ncompiles, block_plus, q >>

\* lines 267-273: the names of the AddCodePatch list ps
RECURSIVE resolve_symbols(_, _, _)
resolve_symbols(ps, map, current_symbol_pos) ==
    IF ps = << >> THEN map
    ELSE LET patch == Head(ps)
             code_len == compile_asm_fake_symbol_len(patch.asm_code, current_symbol_pos)
         IN  resolve_symbols(Tail(ps), Bind(map, patch.name, current_symbol_pos),
                             current_symbol_pos + code_len)

\* lines 275-281: the AddCodePatch list ps assembled for real.  The result of
\* utils.str_overwrite(self.ncontent, new_code) is not assigned: the image stays.
RECURSIVE code_loop(_, _)
code_loop(ps, st) ==
    IF ps = << >> \/ st.raised THEN st
    ELSE LET patch == Head(ps)
             new_code == compile_asm(patch.asm_code, st.curr_code_position, st.name_map)
         IN  IF new_code.raised THEN [st EXCEPT !.raised = TRUE]
             ELSE code_loop(Tail(ps),
                    [st EXCEPT !.added_code = Append(@, new_code.chunk),
                               !.curr_code_position = @ + new_code.chunk.len,
                               !.curr_file_position = @ + new_code.chunk.len])

\* 2) AddCodePatch
add_code_phase ==
    /\ pc = "code"
    /\ \E map \in { resolve_symbols(OfKind("AddCodePatch"), name_map, curr_code_position) } :
       \E st \in { code_loop(OfKind("AddCodePatch"),
                    [added_code |-> added_code, name_map |-> map,
                     curr_code_position |-> curr_code_position,
                     curr_file_position |-> curr_file_position,
                     raised |-> FALSE]) } :
           /\ name_map' = map
           /\ added_code' = st.added_code
           /\ curr_code_position' = st.curr_code_position
           /\ curr_file_position' = st.curr_file_position
           /\ pc' = IF st.raised THEN "failed" ELSE "inline"
           /\ err' = IF st.raised THEN "AssemblerError" ELSE err
    /\ UNCHANGED << patches, added_data, curr_data_position, added_code_file_start,
                    added_data_file_start, ncontent, original_header_end, di, det,
                    ncompiles, block_plus, q >>

\* lines 285-290 for the InlinePatch list ps; new_asm stands for its assembled bytes
RECURSIVE inline_loop(_, _)
inline_loop(ps, st) ==
    IF ps = << >> \/ st.raised THEN st
    ELSE LET patch == Head(ps)
             new_code == patch.new_asm
             file_offset == addr_to_offset(patch.instruction_addr)
         IN  IF Len(new_code) # InsnAt(patch.instruction_addr).len
             THEN [st EXCEPT !.raised = TRUE]
             ELSE inline_loop(Tail(ps),
                    [st EXCEPT !.ncontent =
                        IF file_offset = None THEN str_append(@, new_code)
                        ELSE str_overwrite(@, new_code, file_offset)])

\* 3) InlinePatch
inline_phase ==
    /\ pc = "inline"
    /\ \E st \in { inline_loop(OfKind("InlinePatch"), [ncontent |-> ncontent, raised |-> FALSE]) } :
           /\ ncontent' = st.ncontent
           /\ pc' = IF st.raised THEN "failed" ELSE "headers"
           /\ err' = IF st.raised THEN "AssertionError" ELSE err
    /\ UNCHANGED << patches, name_map, added_code, added_data, curr_code_position,
                    curr_data_position, curr_file_position, added_code_file_start,
                    added_data_file_start, original_header_end, di, det, ncompiles,
                    block_plus, q >>

\* the image after set_added_segment_headers
segment_headers(content) ==
    LET data_segment_header == << 1, added_data_file_start, added_data_segment, 0,
                                  Len(added_data), Len(added_data), \h6, \h0 >>
        code_segment_header == << 1, added_code_file_start, added_code_segment, 0,
                                  SumLen(added_code), SumLen(added_code), \h5, \h0 >>
        c1 == str_overwrite(content, PackWords(code_segment_header), original_header_end)
        c2 == str_overwrite(c1, PackWords(data_segment_header), original_header_end + 32)
        original_nsegments == Unpack(Slice(c2, \h2C, \h2C + 2))
    IN  str_overwrite(c2, Pack(original_nsegments + 2, 2), \h2C)

\* set_added_segment_headers, called on line 292 before the detour loop
set_added_segment_headers ==
    /\ pc = "headers"
    /\ IF is_patched(ncontent)
       THEN /\ ncontent' = segment_headers(ncontent)
            /\ pc' = "detours"
            /\ err' = err
       ELSE /\ ncontent' = ncontent
            /\ pc' = "failed"
            /\ err' = "AssertionError"
    /\ di' = 1
    /\ UNCHANGED << patches, name_map, added_code, added_data, curr_code_position,
                    curr_data_position, curr_file_position, added_code_file_start,
                    added_data_file_start, original_header_end, det, ncompiles,
                    block_plus, q >>

---------------------------------------------------------------------------
(* insert_detour *)

detour_size == 5
one_byte_nop == \h90

\* range(-1*detour_size, 0+1)
detour_attempts == [k \in 1..(detour_size + 1) |-> k - 1 - detour_size]

\* lines 391-397.  movable_bb_size is bound on line 385 to the Block itself, not
\* to its size, so the sum on line 394 is int + Block: with plus = "size" the
\* Block counts as its size there; with plus = "TypeError" the sum raises as soon
\* as the first conjunct lets it be evaluated.  detour_pos is None when no
\* attempt fits.
RECURSIVE find_detour_pos(_, _, _, _, _)
find_detour_pos(attempts, patch_addr, movable_bb_start, movable_bb_size, plus) ==
    IF attempts = << >> THEN [raised |-> FALSE, detour_pos |-> None]
    ELSE LET detour_start == patch_addr + Head(attempts)
             detour_end == detour_start + detour_size - 1
         IN  IF detour_start >= movable_bb_start
             THEN IF plus = "TypeError"
                  THEN [raised |-> TRUE, detour_pos |-> None]
                  ELSE IF detour_end < movable_bb_start + movable_bb_size
                       THEN [raised |-> FALSE, detour_pos |-> detour_start]
                       ELSE find_detour_pos(Tail(attempts), patch_addr, movable_bb_start,
                                            movable_bb_size, plus)
             ELSE find_detour_pos(Tail(attempts), patch_addr, movable_bb_start,
                                  movable_bb_size, plus)

\* lines 376-379
movable_window(instructions) ==
    IF check_if_movable(instructions[Len(instructions)])
    THEN instructions
    ELSE SubSeq(instructions, 1, Len(instructions) - 1)

\* lines 406-414: i.overwritten
overwritten(i, patch_addr, detour_pos) ==
    LET detour_overwritten_bytes == detour_pos..(detour_pos + detour_size - 1)
    IN  IF detour_overwritten_bytes \cap (i.address..(i.address + i.len - 1)) # {}
        THEN IF i.address < patch_addr THEN "pre"
             ELSE IF i.address = patch_addr THEN "culprit"
             ELSE "post"
        ELSE "out"

\* lines 405-414 over the movable instructions
classify(movable_instructions, patch_addr, detour_pos) ==
    [k \in 1..Len(movable_instructions) |->
        [insn |-> movable_instructions[k],
         overwritten |-> overwritten(movable_instructions[k], patch_addr, detour_pos)]]

\* lines 419-421: NOPs over every instruction that is not "out"
RECURSIVE nop_out(_, _)
nop_out(st, tagged) ==
    IF tagged = << >> \/ st.raised THEN st
    ELSE IF Head(tagged).overwritten # "out"
         THEN nop_out(patch_bin(st.ncontent, Head(tagged).insn.address,
                                [k \in 1..Head(tagged).insn.len |-> one_byte_nop]),
                      Tail(tagged))
         ELSE nop_out(st, Tail(tagged))

\* a scan in address order: the end of the first instruction that is not "out"
jmp_back_target_forward(tagged) ==
    LET ks == { k \in 1..Len(tagged) : tagged[k].overwritten # "out" }
    IN  IF ks = {} THEN None
        ELSE LET k == CHOOSE x \in ks : \A y \in ks : x <= y
             IN  tagged[k].insn.address + tagged[k].insn.len

\* lines 447-451: the end of the last instruction, in address order, that is not "out"
RECURSIVE jmp_back_target(_)
jmp_back_target(tagged) ==
    IF tagged = << >> THEN None
    ELSE LET i == tagged[Len(tagged)]
         IN  IF i.overwritten # "out" THEN i.insn.address + i.insn.len
             ELSE jmp_back_target(SubSeq(tagged, 1, Len(tagged) - 1))

\* capstone_to_nasm(i) for the instructions with the given tag, in order
relocated(tagged, which) ==
    LET sel == SelectSeq(tagged, LAMBDA t : t.overwritten = which)
    IN  [k \in 1..Len(sel) |-> [kind |-> "orig", len |-> sel[k].insn.len, insn |-> sel[k].insn]]

\* a stub that runs the culprit before the custom code
injected_code_culprit_first(tagged, code, target) ==
    [k \in 1..5 |-> [kind |-> "nop", len |-> 1]]
    \o relocated(tagged, "pre")
    \o relocated(tagged, "culprit")
    \o << [kind |-> "user", len |-> code.len] >>
    \o relocated(tagged, "post")
    \o << [kind |-> "jmp", len |-> 5, target |-> target] >>

\* lines 432-455: the lines of injected_code, blank lines and comments dropped
injected_code(tagged, code, target) ==
    [k \in 1..5 |-> [kind |-> "nop", len |-> 1]]
    \o relocated(tagged, "pre")
    \o << [kind |-> "user", len |-> code.len] >>
    \o relocated(tagged, "culprit")
    \o relocated(tagged, "post")
    \o << [kind |-> "jmp", len |-> 5, target |-> target] >>

\* insert_detour(patch) from the image content with the code cursor at code_pos:
\* the exception raised ("ok" when none), the locals, and the image it leaves
insert_detour_result(patch, content, code_pos, plus) ==
    LET block_addr == get_block_containing_inst(patch.addr)
        instructions == decompile(BlockInsns(block_addr), block_addr)
        movable_instructions == movable_window(instructions)
        movable_bb_start == movable_instructions[1].address
        movable_bb_size == block_size(block_addr, Len(movable_instructions))
        spot == find_detour_pos(detour_attempts, patch.addr, movable_bb_start,
                                movable_bb_size, plus)
        detour_pos == spot.detour_pos
        tagged == classify(movable_instructions, patch.addr, detour_pos)
        nopped == nop_out([raised |-> FALSE, ncontent |-> content], tagged)
        detour_jmp_code == compile_jmp(detour_pos, code_pos)
        jumped == patch_bin(nopped.ncontent, detour_pos, detour_jmp_code)
        patched_bbcode == read_mem_from_file(jumped.ncontent, block_addr,
                                             block_size(block_addr, Len(instructions)))
        target == jmp_back_target(tagged)
        stub == injected_code(tagged, patch.code, target)
        window == [addr |-> patch.addr, block_addr |-> block_addr,
                   movable_bb_start |-> movable_bb_start,
                   movable_bb_size |-> movable_bb_size,
                   window |-> movable_instructions]
        fail(status, locals, image) ==
            [status |-> status, locals |-> locals, ncontent |-> image, new_code |-> << >>]
    IN  IF block_addr = None
        THEN fail("MissingBlockException", [addr |-> patch.addr], content)
        ELSE IF Len(movable_instructions) = 0
        THEN fail("DetourException: No movable instructions",
                  [addr |-> patch.addr, block_addr |-> block_addr], content)
        ELSE IF spot.raised
        THEN fail("TypeError", window, content)
        ELSE IF detour_pos = None
        THEN fail("DetourException: No space in bb", window, content)
        ELSE IF \A k \in 1..Len(tagged) : tagged[k].overwritten = "out"
        THEN fail("AssertionError", window, content)
        ELSE IF nopped.raised
        THEN fail("InvalidVAddrException", window, nopped.ncontent)
        ELSE IF jumped.raised \/ patched_bbcode.raised
        THEN fail("InvalidVAddrException", window, jumped.ncontent)
        ELSE [status |-> "ok",
              locals |-> [addr |-> patch.addr, block_addr |-> block_addr,
                          movable_bb_start |-> movable_bb_start,
                          movable_bb_size |-> movable_bb_size,
                          window |-> movable_instructions,
                          detour_pos |-> detour_pos,
                          movable_instructions |-> tagged,
                          detour_jmp_code |-> detour_jmp_code,
                          jmp_back_target |-> target,
                          injected_code |-> stub,
                          base |-> code_pos],
              ncontent |-> jumped.ncontent,
              new_code |-> << [kind |-> "stub", len |-> SumLen(stub), base |-> code_pos,
                              items |-> stub] >>]

\* the patches of the detour loop (line 297) not yet visited
DetoursLeft == { k \in di..Len(patches) : patches[k].kind = "InsertCodePatch" }

\* 4) InsertCodePatch: one call of insert_detour
insert_detour ==
    /\ pc = "detours"
    /\ DetoursLeft # {}
    /\ \E k \in { j \in DetoursLeft : \A i \in DetoursLeft : j <= i } :
       \E r \in { insert_detour_result(patches[k], ncontent, curr_code_position, block_plus) } :
           /\ di' = k + 1
           /\ det' = [status |-> r.status] @@ r.locals
           /\ ncontent' = r.ncontent
           /\ added_code' = added_code \o r.new_code
           /\ curr_code_position' = curr_code_position + SumLen(r.new_code)
           /\ pc' = IF r.status = "ok" THEN "detours" ELSE "failed"
           /\ err' = IF r.status = "ok" THEN err ELSE r.status
    /\ UNCHANGED << patches, name_map, added_data, curr_data_position,
                    curr_file_position, added_code_file_start, added_data_file_start,
                    original_header_end, ncompiles, block_plus, q >>

\* compile_patches returns
compile_end ==
    /\ pc = "detours"
    /\ DetoursLeft = {}
    /\ pc' = "done"
    /\ UNCHANGED << patches, name_map, added_code, added_data, curr_code_position,
                    curr_data_position, curr_file_position, added_code_file_start,
                    added_data_file_start, ncontent, original_header_end, di, err, det,
                    ncompiles, block_plus, q >>

Next ==
    \/ add_data
    \/ add_code
    \/ insert_into_block
    \/ replace_instruction_asm
    \/ compile_begin
    \/ add_data_phase
    \/ add_code_phase
    \/ inline_phase
    \/ set_added_segment_headers
    \/ insert_detour
    \/ compile_end

Spec == Init /\ [][Next]_vars

---------------------------------------------------------------------------
(* The detour engine: claims C1 to C4 *)

\* insert_detour got as far as the search for a slot
Searched == det.status \notin {"none", "MissingBlockException",
                               "DetourException: No movable instructions"}

WindowStart == det.movable_bb_start
WindowEnd == det.movable_bb_start + det.movable_bb_size

\* the start offsets p for which [A+p, A+p+5) lies in the movable window
Qualifying ==
    { p \in (0 - detour_size)..0 :
        det.addr + p >= WindowStart /\ det.addr + p + detour_size <= WindowEnd }

\* C1: the slot search accepts the first start offset p of -5..0 whose five
\* bytes [A+p, A+p+5) lie in the movable window, the range it overwrites then
\* lies in the window, and it fails with DetourException "No space in bb" when
\* no p qualifies.
C1_FirstFittingSlot ==
    Searched =>
        IF Qualifying = {}
        THEN det.status = "DetourException: No space in bb"
        ELSE /\ det.status = "ok"
             /\ det.detour_pos - det.addr \in Qualifying
             /\ \A p \in Qualifying : det.detour_pos - det.addr <= p
             /\ WindowStart <= det.detour_pos
             /\ det.detour_pos + detour_size <= WindowEnd

\* what executes once the trampoline is taken: the stub's relocated
\* instructions and the custom code in order, then, from the target of its
\* final jmp, the instructions of the block that follow in place
ExecutionFromTrampoline ==
    LET stub == SelectSeq(det.injected_code, LAMBDA it : it.kind \in {"orig", "user"})
        block == decompile(BlockInsns(det.block_addr), det.block_addr)
        rest == SelectSeq(block, LAMBDA i : i.address >= det.jmp_back_target)
    IN  [k \in 1..Len(stub) |->
            [kind |-> stub[k].kind,
             address |-> IF stub[k].kind = "orig" THEN stub[k].insn.address ELSE None]]
        \o [k \in 1..Len(rest) |-> [kind |-> "orig", address |-> rest[k].address]]

NonOut == { k \in 1..Len(det.movable_instructions) :
                det.movable_instructions[k].overwritten # "out" }

InsnBytes(i) == i.address..(i.address + i.len - 1)

C10_DisplacedAreMovable ==
    Searched =>
        /\ \A k \in 1..Len(det.window) : check_if_movable(det.window[k])
        /\ det.status = "ok" =>
                \A k \in NonOut : check_if_movable(det.movable_instructions[k].insn)

---------------------------------------------------------------------------
(* Address translation on its own: claim C5 *)

\* the addresses and sizes the translation is called with
TAddrs == { \h08047FFF, \h08048000, \h08048FFE, \h08048FFF, \h08049000,
            \h08049FFF, \h0804A001 }
TSizes == { 1, 2, 3, \h1000, \h1001, \h1002, \h2003 }

\* new_content of the given size; no byte of it is a byte of the file
TPayload(size) == [k \in 1..size |-> 150 + (k % 50)]

InitT ==
    /\ ncontent = setup_headers.ncontent
    /\ original_header_end = setup_headers.original_header_end
    /\ patches = << >>
    /\ name_map = NoMap
    /\ added_code = << >>
    /\ added_data = << >>
    /\ curr_code_position = added_code_segment
    /\ curr_data_position = added_data_segment
    /\ curr_file_position = round_up_to_page(setup_headers.ncontent.len + 2 * 32)
    /\ added_code_file_start = None
    /\ added_data_file_start = None
    /\ pc = "idle"
    /\ di = 1
    /\ err = "none"
    /\ det = NoDetour
    /\ ncompiles = 0
    /\ block_plus = "size"
    /\ q \in { [pc |-> "call", address |-> a, size |-> n, raised |-> FALSE,
                mlist |-> << >>, mem |-> << >>] : a \in TAddrs, n \in TSizes }

image_vars == << patches, name_map, added_code, added_data, curr_code_position,
                 curr_data_position, curr_file_position, added_code_file_start,
                 added_data_file_start, original_header_end, pc, di, err, det,
                 ncompiles, block_plus >>

\* get_memory_translation_list(address, size)
translate ==
    /\ q.pc = "call"
    /\ \E t \in { get_memory_translation_list(q.address, q.size) } :
            q' = [q EXCEPT !.pc = "list", !.raised = t.raised, !.mlist = t.mlist]
    /\ UNCHANGED << image_vars, ncontent >>

\* self.ncontent = patch_bin(address, new_content)
patch ==
    /\ q.pc = "list"
    /\ \E r \in { patch_bin(ncontent, q.address, TPayload(q.size)) } :
            /\ ncontent' = r.ncontent
            /\ q' = [q EXCEPT !.pc = "patched", !.raised = r.raised]
    /\ UNCHANGED image_vars

\* read_mem_from_file(address, size)
read ==
    /\ q.pc = "patched"
    /\ \E r \in { read_mem_from_file(ncontent, q.address, q.size) } :
            q' = [q EXCEPT !.pc = "read", !.raised = r.raised, !.mem = r.mem]
    /\ UNCHANGED << image_vars, ncontent >>

NextT == translate \/ patch \/ read

SpecT == InitT /\ [][NextT]_vars

\* every address of [va, va+size) has a file offset
Mapped == \A i \in 0..(q.size - 1) : addr_to_offset(q.address + i) # None

\* the file offset at position i (from 0) of the ranges of mlist taken in order
RECURSIVE OffsetAt(_, _)
OffsetAt(mlist, i) ==
    IF mlist = << >> THEN None
    ELSE LET n == Head(mlist)[2] - Head(mlist)[1]
         IN  IF i < n THEN Head(mlist)[1] + i ELSE OffsetAt(Tail(mlist), i - n)

RECURSIVE TotalLength(_)
TotalLength(mlist) ==
    IF mlist = << >> THEN 0
    ELSE Head(mlist)[2] - Head(mlist)[1] + TotalLength(Tail(mlist))

\* C5: for a range [va, va+size) that is mapped, get_memory_translation_list
\* returns ranges whose lengths sum to size and that are, in order, the file
\* offsets of va, va+1, ..., va+size-1, across any number of page boundaries;
\* patch_bin writes each byte of new_content at the file offset of its own
\* address and read_mem_from_file reads them back.
C5_TranslationIsBytewise ==
    (q.pc \in {"list", "patched", "read"} /\ Mapped) =>
        /\ ~q.raised
        /\ \A k \in 1..Len(q.mlist) : q.mlist[k][1] < q.mlist[k][2]
        /\ TotalLength(q.mlist) = q.size
        /\ \A i \in 0..(q.size - 1) :
                OffsetAt(q.mlist, i) = addr_to_offset(q.address + i)
        /\ q.pc \in {"patched", "read"} =>
                \A i \in 0..(q.size - 1) :
                    ByteAt(ncontent, addr_to_offset(q.address + i))
                        = TPayload(q.size)[i + 1]
        /\ q.pc = "read" => q.mem = TPayload(q.size)

\* a mapped range over three pages of two segments has been patched
C5_Witness ==
    /\ q.pc = "patched"
    /\ Mapped
    /\ Len(q.mlist) >= 3
    /\ addr_to_offset(q.address + q.size - 1) - addr_to_offset(q.address) >= q.size

---------------------------------------------------------------------------
(* The layout of the added regions and of their headers: claims C6 to C9 *)

\* the file offset claimed for the byte of the added code at address v
CodeOffset(v) == added_code_file_start + (v - added_code_segment)

\* C6: when compile_patches completes, the added code region (the AddCode
\* patches, then the detour stubs) is in the image at added_code_file_start:
\* the image holds all of its bytes, and the five nops every stub begins with
\* are found at the file offsets of their addresses.
C6_AddedCodeInImage ==
    pc = "done" =>
        /\ added_code_file_start + SumLen(added_code) <= ncontent.len
        /\ \A k \in 1..Len(added_code) :
                added_code[k].kind = "stub" =>
                    \A j \in 0..4 :
                        ByteAt(ncontent, CodeOffset(added_code[k].base + j)) = one_byte_nop

\* the program-header count at offset 0x2C of the image
ProgramHeaderCount == Unpack(Slice(ncontent, \h2C, \h2C + 2))

\* where the first call of compile_patches puts the added data
FirstCallDataStart == round_up_to_page(setup_headers.ncontent.len + 2 * 32)

\* C7: compile_patches, called once or again, completes in the state a single
\* call leaves: the added data starts where the first call puts it, the image
\* has the length of a single call and the program-header count is the
\* original count plus two.
C7_RecompileSameAsSingleCall ==
    pc = "done" =>
        /\ ProgramHeaderCount = Len(FileSegments) + 2
        /\ added_data_file_start = FirstCallDataStart
        /\ added_code_file_start = round_up_to_page(FirstCallDataStart + Len(added_data))
        /\ ncontent.len = added_code_file_start

\* C8: the code cursor never passes the base of the data segment, and after
\* compile_patches the address range of the added code and the one of the
\* added data are disjoint.
C8_AddedRangesDisjoint ==
    /\ curr_code_position <= added_data_segment
    /\ pc = "done" =>
            \/ added_code = << >>
            \/ added_data = << >>
            \/ added_code_segment + SumLen(added_code) <= added_data_segment
            \/ added_data_segment + Len(added_data) <= added_code_segment

\* word k (from 0) of the program header of the added code
CodeHeaderWord(k) ==
    Unpack(Slice(ncontent, original_header_end + 4 * k, original_header_end + 4 * k + 4))

\* C9: once the two added-segment headers are written no InsertDetour patch
\* remains to be processed, and when compile_patches completes the file size
\* and the memory size of the code header are the length of the added code
\* region, detour stubs included.
C9_HeadersAfterDetours ==
    /\ pc = "detours" => DetoursLeft = {}
    /\ pc = "done" =>
            /\ CodeHeaderWord(4) = SumLen(added_code)
            /\ CodeHeaderWord(5) = SumLen(added_code)

---------------------------------------------------------------------------
(* The two passes over the AddCode patches: claim C11 *)

\* the AddCode phase of the running compile_patches is over
CodeLaidOut == pc \in {"inline", "headers", "detours"}

\* the placeholder assembly of every AddCode patch has the length of the final one
LengthStable ==
    \A k \in 1..Len(patches) :
        patches[k].kind = "AddCodePatch" =>
            patches[k].asm_code.fake_len = patches[k].asm_code.len

\* the address at which the bytes of the j-th AddCode patch begin
CodeStart(j) ==
    added_code_segment
        + SumLen([i \in 1..(j - 1) |-> OfKind("AddCodePatch")[i].asm_code])

\* C11: when the placeholder assembly of each AddCode patch has the length of
\* its final assembly, after the AddCode phase the bytes of the j-th AddCode
\* patch begin at 0x09000000 plus the final lengths of the AddCode patches
\* before it, the name of every named AddCode patch is bound to the address
\* where that patch begins, and every patch that refers to a name, also to one
\* defined by a later patch, is assembled with the address bound to that name.
C11_NamesBoundToStarts ==
    (CodeLaidOut /\ LengthStable) =>
        LET cs == OfKind("AddCodePatch")
        IN  \A j \in 1..Len(cs) :
                /\ added_code[j].base = CodeStart(j)
                /\ cs[j].name # NoName =>
                        /\ cs[j].name \in DOMAIN name_map
                        /\ name_map[cs[j].name] = CodeStart(j)
                /\ cs[j].asm_code.ref # NoName =>
                        /\ cs[j].asm_code.ref \in DOMAIN name_map
                        /\ added_code[j].sym = name_map[cs[j].asm_code.ref]

====
